---- MODULE Spec2Model ----
(***************************************************************************)
(* Verification model of the collaborative MCP proxy servers.              *)
(*                                                                         *)
(* Spec         FixedCollaborativeMCPServer (src/fixed-collaborative-v2.js) *)
(*              the client registry (mcpClients / childProcesses), the     *)
(*              spawned participant processes, the tools/call handler and  *)
(*              the shutdown path.                                         *)
(* SpecOverlap  the same server with two overlapping tools/call requests.  *)
(* SpecSerena   SimpleCollaborativeMCPServer (src/unnamed/part_003):       *)
(*              performCollaboration and the Serena subprocess call.       *)
(* SpecSerenaFair  SpecSerena with the timers of the event loop firing.    *)
(* SpecGateway  the request dispatch of CollaborativeMCPServer             *)
(*              (src/unnamed/part_000), RealCollaborativeMCPServer         *)
(*              (src/data-parser.js) and SimpleCollaborativeMCPServer      *)
(*              (src/simple-collaborative.js, src/unnamed/part_003).       *)
(* SpecReview   RealCollaborativeMCPServer (src/data-parser.js):           *)
(*              handleCollaborate and the three phases of                  *)
(*              performRealCollaboration.                                  *)
(* SpecSimple   SimpleCollaborativeMCPServer (src/simple-collaborative.js): *)
(*              the sequential performCollaboration.                       *)
(* SpecCodec    the 'data' handlers that cut a stream into lines: run      *)
(*              (src/unnamed/part_003), start (src/data-parser.js) and the *)
(*              stdout handler of callRealSerenaMCP.                       *)
(* SpecWire     one call of callRealSerenaMCP (src/unnamed/part_003) with  *)
(*              the ids of the requests written and the answers read.      *)
(***************************************************************************)
EXTENDS Integers, Sequences, FiniteSets, TLC

\* ------------------------------------------------------------------ bounds
MaxProcs == 2        \* processes spawned in one run of the server
MaxParts == 2        \* length of a participants argument
Sessions == {1, 2}   \* tools/call handlers that may overlap

\* ------------------------------------------------------- participants, keys
MCPParticipants == {"gemini", "codex"}
Participants == MCPParticipants \cup {"ollama", "bogus"}
ClientKeys == {"gemini-client", "codex-client"}

ClientKey(p) == IF p = "gemini" THEN "gemini-client" ELSE "codex-client"

ParticipantLists == UNION {[1..n -> Participants] : n \in 1..MaxParts}
SingleLists == [1..1 -> Participants]

NoText == ""
NoError == ""

VARIABLES
  procs,            \* every child process spawned so far, in spawn order
  mcpClients,       \* this.mcpClients: clientKey -> index of the connected client (0: absent)
  childProcesses,   \* this.childProcesses: clientKey -> index of the process (0: absent)
  killTimers,       \* processes with an armed 5 s force-kill timer
  closing,          \* clientKey -> detached cleanupClient calls suspended in client.close()
  sess,             \* the tools/call handlers
  server,           \* "up", "cleaning" (cleanup() awaiting), "exited"
  zen,              \* performCollaboration of SimpleCollaborativeMCPServer
  serena,           \* the call of callRealSerenaMCP and its subprocess
  gateway,          \* a server's request dispatch: lines read (reqs), lines parsed
                    \* and dispatched (handled), responses written (out),
                    \* collaborations awaited (pending)
  simple,           \* performCollaboration of simple-collaborative.js: position in
                    \* the participant loop, result and error maps
  review,           \* handleCollaborate / performRealCollaboration of
                    \* RealCollaborativeMCPServer
  codec,            \* a 'data' handler reading lines: characters received
                    \* (stream), its buffer, the texts handed to JSON.parse
  wire              \* one call of callRealSerenaMCP with the ids on its pipes:
                    \* the call (zen, serena), whether the answer to initialize
                    \* has arrived (ready), the id of the answer that resolved it

v2vars == <<procs, mcpClients, childProcesses, killTimers, closing, sess, server>>
zenvars == <<zen, serena>>
vars == <<procs, mcpClients, childProcesses, killTimers, closing, sess, server,
          zen, serena, gateway, review, simple, codec, wire>>

\* ------------------------------------------------------------- the V2 state
\* The operations of the server are written as functions of the whole server
\* state, so that one action can run a handler up to its next suspension.
State == [procs |-> procs, mcp |-> mcpClients, child |-> childProcesses,
          timers |-> killTimers, conts |-> closing, sess |-> sess,
          server |-> server, ok |-> TRUE]

Commit(n) ==
  /\ n.ok
  /\ procs' = n.procs
  /\ mcpClients' = n.mcp
  /\ childProcesses' = n.child
  /\ killTimers' = n.timers
  /\ closing' = n.conts
  /\ sess' = n.sess
  /\ server' = n.server
  /\ UNCHANGED <<zenvars, gateway, review, simple, codec, wire>>

IdleSession == [pc |-> "idle", parts |-> <<>>, idx |-> 1, called |-> <<>>,
                results |-> [p \in Participants |-> NoText],
                errors |-> [p \in Participants |-> NoError],
                mine |-> 0, client |-> 0, reason |-> NoError,
                response |-> "none"]

\* What the environment decides when a process is spawned.
SpawnChoices == [fate : {"ok", "enoent"}]

\* ChildProcess.kill(sig): the signal is delivered, and .killed set, only while
\* the process handle exists; afterwards kill() returns false and changes nothing.
kill(st, i, sig) ==
  IF st.procs[i].state = "running"
  THEN [st EXCEPT !.procs[i].term = @ \/ (sig = "SIGTERM"),
                  !.procs[i].kill9 = @ \/ (sig = "SIGKILL")]
  ELSE st

\* childProcess.killed: set by the first kill() that delivered a signal.
killed(p) == p.term \/ p.kill9

\* The 5 s timer of cleanupClient. Set for a process that is already gone, or
\* firing after the process went, it finds kill() to do nothing: only the
\* timers of live processes are kept.
armed(st, c) == IF st.procs[c].state = "running" THEN {c} ELSE {}

\* cleanupClient, second half: "Kill child process with proper signal handling".
killChild(st, key) ==
  LET c == st.child[key] IN
  IF c = 0 THEN st
  ELSE LET st1 == IF ~killed(st.procs[c])
                  THEN [kill(st, c, "SIGTERM") EXCEPT !.timers = @ \cup armed(st, c)]
                  ELSE st
       IN [st1 EXCEPT !.child[key] = 0]

\* cleanupClient up to its first suspension: with a registered client it calls
\* client.close() and suspends (TRUE); without one it runs to its end (FALSE).
cleanupSuspends(st, key) == st.mcp[key] # 0

cleanupClientBegin(st, key) ==
  IF st.mcp[key] # 0
  THEN [st EXCEPT !.procs[st.mcp[key]].conn =
                     IF @ = "connected" THEN "closed" ELSE @]
  ELSE killChild(st, key)

\* cleanupClient after "await client.close()".
cleanupClientResume(st, key) == killChild([st EXCEPT !.mcp[key] = 0], key)

\* cleanupClient called without await (exit handler, connect catch).
cleanupClientDetached(st, key) ==
  IF cleanupSuspends(st, key)
  THEN [cleanupClientBegin(st, key) EXCEPT !.conts[key] = @ + 1]
  ELSE cleanupClientBegin(st, key)

\* createMCPClient: spawn, register the process, start connect and its timer.
createMCPClient(st, s, key, ch) ==
  IF Len(st.procs) >= MaxProcs THEN [st EXCEPT !.ok = FALSE]
  ELSE LET i == Len(st.procs) + 1
           p == [key |-> key,
                 state |-> IF ch.fate = "ok" THEN "running" ELSE "enoent",
                 term |-> FALSE, kill9 |-> FALSE,
                 conn |-> "connecting", created |-> "pending"]
       IN [st EXCEPT !.procs = Append(@, p),
                     !.child[key] = i,
                     !.sess[s].pc = "creating",
                     !.sess[s].mine = i]

\* callGeminiMCP / callCodexMCP up to the first await that suspends.
callMCP(st, s, key, ch) ==
  IF st.mcp[key] = 0
  THEN createMCPClient(st, s, key, ch)
  ELSE [st EXCEPT !.sess[s].pc = "request", !.sess[s].client = st.mcp[key]]

\* handleCollaborate, the try branch: results[participant] = ...
recordResult(st, s) ==
  LET me == st.sess[s] IN
  [st EXCEPT !.sess[s].results[me.parts[me.idx]] = "text",
             !.sess[s].idx = @ + 1, !.sess[s].mine = 0, !.sess[s].client = 0]

\* handleCollaborate, the catch branch: errors[participant] = error.message
recordError_NoCatch(st, s, reason) ==
  [st EXCEPT !.sess[s].pc = "done", !.sess[s].response = "error"]

recordError(st, s, reason) ==
  LET me == st.sess[s] IN
  [st EXCEPT !.sess[s].errors[me.parts[me.idx]] = reason,
             !.sess[s].idx = @ + 1, !.sess[s].mine = 0, !.sess[s].client = 0,
             !.sess[s].reason = NoError]

\* handleCollaborate: the participant loop of session s from its current index
\* up to the next suspension (a spawn, a request, Ollama's delay) or its return.
RECURSIVE handleCollaborate(_, _, _)
handleCollaborate(st, s, ch) ==
  LET me == st.sess[s] IN
  IF me.idx > Len(me.parts)
  THEN [st EXCEPT !.sess[s].pc = "done", !.sess[s].response = "result"]
  ELSE LET p == me.parts[me.idx]
           st1 == [st EXCEPT !.sess[s].called = Append(@, p)]
       IN CASE p = "ollama" -> [st1 EXCEPT !.sess[s].pc = "ollama"]
            [] p \in MCPParticipants -> callMCP(st1, s, ClientKey(p), ch)
            [] OTHER ->
                 LET st2 == recordError(st1, s, "unknown") IN
                 IF st2.sess[s].pc = "done" THEN st2
                 ELSE handleCollaborate(st2, s, ch)

\* A successful participant call returns into the loop.
participantDone(st, s, ch) == handleCollaborate(recordResult(st, s), s, ch)

\* The catch of handleCollaborate, then the loop goes on.
participantFailed(st, s, reason, ch) ==
  LET st1 == recordError(st, s, reason) IN
  IF st1.sess[s].pc = "done" THEN st1 ELSE handleCollaborate(st1, s, ch)

\* The catch of callGeminiMCP / callCodexMCP: await cleanupClient, then throw.
callCatch(st, s, reason, ch) ==
  LET key == ClientKey(st.sess[s].parts[st.sess[s].idx]) IN
  IF cleanupSuspends(st, key)
  THEN [cleanupClientBegin(st, key) EXCEPT !.sess[s].pc = "cleanup",
                                           !.sess[s].reason = reason]
  ELSE participantFailed(cleanupClientBegin(st, key), s, reason, ch)

\* The session (if any) awaiting the creation promise of process i.
Creator(st, i) == {s \in Sessions : st.sess[s].pc = "creating" /\ st.sess[s].mine = i}

\* reject(...) of the creation promise of process i.
RECURSIVE rejectAll(_, _, _, _)
rejectAll(st, ss, reason, ch) ==
  IF ss = {} THEN st
  ELSE LET s == CHOOSE x \in ss : TRUE IN
       rejectAll(callCatch(st, s, reason, ch), ss \ {s}, reason, ch)

rejectCreation(st, i, reason, ch) ==
  IF st.procs[i].created = "pending"
  THEN rejectAll([st EXCEPT !.procs[i].created = "rejected"], Creator(st, i), reason, ch)
  ELSE st

\* ------------------------------------------------------------------ Init
IdleZen == [pc |-> "idle", named |-> TRUE, parts |-> <<>>, taskOk |-> TRUE,
            calls |-> <<>>,
            arrival |-> <<>>,
            initialResults |-> <<>>, errors |-> <<>>, results |-> <<>>,
            context |-> <<>>, serenaResult |-> "none", response |-> "none"]

NoCall == [state |-> "none", term |-> FALSE, promise |-> "none", timer |-> FALSE,
           delivered |-> <<>>, marker |-> FALSE, stderrs |-> 0, delayed |-> 0,
           writes |-> <<>>]

InitV2 ==
  /\ procs = <<>>
  /\ mcpClients = [k \in ClientKeys |-> 0]
  /\ childProcesses = [k \in ClientKeys |-> 0]
  /\ killTimers = {}
  /\ closing = [k \in ClientKeys |-> 0]
  /\ sess = [s \in Sessions |-> IdleSession]
  /\ server = "up"

InitZen ==
  /\ zen = IdleZen
  /\ serena = NoCall

NoGateway == [impl |-> "none", reqs |-> <<>>, handled |-> {}, out |-> <<>>,
              pending |-> {}]

InitGateway == gateway = NoGateway

NoReview == [pc |-> "idle", mode |-> "apply", task |-> "present", ai |-> "none",
             stage |-> "none", reason |-> "", idx |-> 0, results |-> <<>>, errors |-> <<>>,
             discussions |-> <<>>, reviewCalls |-> <<>>, reviewThrows |-> {}, consensus |-> <<>>,
             response |-> "none"]

InitReview == review = NoReview

IdleSimple == [pc |-> "idle", named |-> TRUE, parts |-> <<>>, taskOk |-> TRUE,
               idx |-> 0, results |-> <<>>, errors |-> <<>>, response |-> "none"]

InitSimple == simple = IdleSimple

NoReader == [reader |-> "none", stream |-> <<>>, buffer |-> <<>>, parsed |-> <<>>]

InitCodec == codec = NoReader

NoWire == [zen |-> IdleZen, serena |-> NoCall, ready |-> FALSE, answeredBy |-> 0]

InitWire == wire = NoWire

Init == InitV2 /\ InitZen /\ InitGateway /\ InitReview /\ InitSimple /\ InitCodec
        /\ InitWire

Running == server # "exited"

\* ---------------------------------------------------------------- actions
\* A tools/call request for "collaborate" arrives: handleCollaborate(args).
Invoke(s, parts) ==
  /\ server = "up"
  /\ sess[s].pc = "idle"
  /\ \E ch \in SpawnChoices :
       Commit(handleCollaborate([State EXCEPT !.sess[s].parts = parts], s, ch))

\* callOllamaMCP: the simulated 1 s delay elapses.
OllamaDone(s) ==
  /\ Running
  /\ sess[s].pc = "ollama"
  /\ \E ch \in SpawnChoices : Commit(participantDone(State, s, ch))

\* childProcess 'error': the spawn failed.
ProcError(i) ==
  /\ Running
  /\ i \in 1..Len(procs)
  /\ procs[i].state = "enoent"
  /\ \E ch \in SpawnChoices :
       Commit(rejectCreation([State EXCEPT !.procs[i].state = "exited"], i, "spawn", ch))

\* client.connect(transport) resolves: the handshake was answered.
ConnectOk(i) ==
  /\ Running
  /\ i \in 1..Len(procs)
  /\ procs[i].state = "running"
  /\ procs[i].conn = "connecting"
  /\ LET key == procs[i].key
         st1 == [State EXCEPT !.procs[i].conn = "connected",
                              !.mcp[key] = i,
                              !.procs[i].created =
                                 IF @ = "pending" THEN "resolved" ELSE @]
         waiting == IF procs[i].created = "pending" THEN Creator(State, i) ELSE {}
     IN Commit([st1 EXCEPT !.sess = [s \in Sessions |->
                  IF s \in waiting
                  THEN [st1.sess[s] EXCEPT !.pc = "request", !.client = st1.mcp[key], !.mine = 0]
                  ELSE st1.sess[s]]])

\* client.connect(transport) rejects: clearTimeout, cleanupClient, reject.
ConnectFail(i) ==
  /\ Running
  /\ i \in 1..Len(procs)
  /\ procs[i].conn = "connecting"
  /\ \E ch \in SpawnChoices :
       LET st1 == [State EXCEPT !.procs[i].conn = "failed"]
           st2 == cleanupClientDetached(st1, procs[i].key)
       IN Commit(rejectCreation(st2, i, "connect-failed", ch))

\* The 15 s connectTimeout is armed until connect settles; its firing after
\* the creation promise was rejected by 'error' only logs, and is left out.
ctimer(p) == p.conn = "connecting" /\ p.created = "pending"

\* The 15 s connectTimeout fires.
ConnectTimeout(i) ==
  /\ Running
  /\ i \in 1..Len(procs)
  /\ ctimer(procs[i])
  /\ \E ch \in SpawnChoices :
       Commit(rejectCreation(State, i, "connect-timeout", ch))

\* The participant answers the tools/call request.
RequestOk(s) ==
  /\ Running
  /\ sess[s].pc = "request"
  /\ procs[sess[s].client].conn = "connected"
  /\ procs[sess[s].client].state = "running"
  /\ \E ch \in SpawnChoices : Commit(participantDone(State, s, ch))

\* client.request rejects: a remote error, the 30 s timeout, or a closed connection.
RequestFail(s) ==
  /\ Running
  /\ sess[s].pc = "request"
  /\ \E ch \in SpawnChoices,
        reason \in IF procs[sess[s].client].conn = "closed"
                   THEN {"closed"} ELSE {"remote", "timeout"} :
       Commit(callCatch(State, s, reason, ch))

\* callGeminiMCP's catch resumes after "await this.cleanupClient(clientKey)".
CleanupAwaited(s) ==
  /\ Running
  /\ sess[s].pc = "cleanup"
  /\ \E ch \in SpawnChoices :
       LET key == ClientKey(sess[s].parts[sess[s].idx]) IN
       Commit(participantFailed(cleanupClientResume(State, key), s, sess[s].reason, ch))

\* A detached cleanupClient resumes after "await client.close()".
CleanupDetached(key) ==
  /\ Running
  /\ closing[key] > 0
  /\ Commit(cleanupClientResume([State EXCEPT !.conts[key] = @ - 1], key))

\* The 5 s timer set by cleanupClient fires.
GraceTimer(i) ==
  /\ Running
  /\ i \in killTimers
  /\ LET st1 == [State EXCEPT !.timers = @ \ {i}] IN
     Commit(IF ~killed(procs[i]) THEN kill(st1, i, "SIGKILL") ELSE st1)

\* A participant process exits (by itself or on a signal): the transport of its
\* client closes and the 'exit' handler of createMCPClient runs.
ProcExit(i) ==
  /\ Running
  /\ i \in 1..Len(procs)
  /\ procs[i].state = "running"
  /\ LET st1 == [State EXCEPT !.procs[i].state = "exited",
                              !.procs[i].conn = IF @ = "connected" THEN "closed" ELSE @,
                              !.timers = @ \ {i}]
     IN Commit(cleanupClientDetached(st1, procs[i].key))

\* SIGINT / SIGTERM: cleanup() starts cleanupClient for every key of mcpClients.
RECURSIVE beginAll(_, _)
beginAll(st, ks) ==
  IF ks = {} THEN st
  ELSE LET k == CHOOSE x \in ks : TRUE IN
       beginAll(cleanupClientDetached(st, k), ks \ {k})

Shutdown ==
  /\ server = "up"
  /\ Commit([beginAll(State, {k \in ClientKeys : mcpClients[k] # 0})
               EXCEPT !.server = "cleaning"])

\* Promise.allSettled(cleanupPromises) settled: process.exit(0).
ServerExit ==
  /\ server = "cleaning"
  /\ \A k \in ClientKeys : closing[k] = 0
  /\ Commit([State EXCEPT !.server = "exited"])

Server ==
  \/ \E s \in Sessions : OllamaDone(s)
  \/ \E i \in 1..MaxProcs : ProcError(i)
  \/ \E i \in 1..MaxProcs : ConnectOk(i)
  \/ \E i \in 1..MaxProcs : ConnectFail(i)
  \/ \E i \in 1..MaxProcs : ConnectTimeout(i)
  \/ \E s \in Sessions : RequestOk(s)
  \/ \E s \in Sessions : RequestFail(s)
  \/ \E s \in Sessions : CleanupAwaited(s)
  \/ \E k \in ClientKeys : CleanupDetached(k)
  \/ \E i \in 1..MaxProcs : GraceTimer(i)
  \/ \E i \in 1..MaxProcs : ProcExit(i)
  \/ Shutdown
  \/ ServerExit

\* One tools/call at a time, with any participants argument.
Next ==
  \/ \E parts \in ParticipantLists : Invoke(1, parts)
  \/ Server

Spec == Init /\ [][Next]_vars

\* Overlapping tools/call requests (the SDK server does not serialise its
\* request handlers), each naming one participant.
NextOverlap ==
  \/ \E s \in Sessions, parts \in SingleLists : Invoke(s, parts)
  \/ Server

SpecOverlap == Init /\ [][NextOverlap]_vars

\* ======================================= SimpleCollaborativeMCPServer (Zen)
MaxStderr == 2       \* stderr chunks a Serena process writes
MaxZenParts == 3     \* participants of a Zen-style session

ZenParticipants == {"ollama", "gemini", "codex", "serena", "bogus"}
ZenLists == UNION {[1..n -> ZenParticipants] : n \in 1..MaxZenParts}

\* The arguments of a collaborate call: participants named, or left out.
ZenArgs == {[named |-> TRUE, participants |-> l] : l \in ZenLists}
             \cup {[named |-> FALSE, participants |-> <<>>]}

\* const { task, content, participants = [...] } = args
defaultParticipants(impl) ==
  IF impl = "zen" THEN <<"ollama", "gemini", "codex", "serena">> ELSE <<"ollama">>

destructure(impl, args) ==
  IF args.named THEN args.participants ELSE defaultParticipants(impl)

ZState == [zen |-> zen, serena |-> serena]

ZCommit(n) ==
  /\ zen' = n.zen
  /\ serena' = n.serena
  /\ UNCHANGED <<v2vars, gateway, review, simple, codec, wire>>

\* The keys of a plain object, in insertion order.
Keys(m) == {m[k] : k \in 1..Len(m)}

\* obj[key] = value: a new key is added last, a present key keeps its place.
setKey(m, key) == IF key \in Keys(m) THEN m ELSE Append(m, key)

\* callParticipant up to its first suspension. promptOk: the prompt built from
\* task and content is a string. callOllama and callGemini read the prompt before
\* their delay, callCodex after it; another name is an unknown participant.
startCall(p, promptOk) ==
  CASE p \in {"ollama", "gemini"} -> IF promptOk THEN "pending" ELSE "err"
    [] p = "codex" -> "pending"
    [] p = "serena" -> "skip"
    [] OTHER -> "err"

\* The simulated delay of a participant is over.
finishCall(p, promptOk) == IF promptOk THEN "ok" ELSE "err"

\* performCollaboration, "Collect initial results": in the order of the list.
collect_DropErrors(z, k) ==
  IF z.calls[k] = "ok"
  THEN [z EXCEPT !.initialResults = setKey(@, z.parts[k]),
                 !.results = setKey(@, z.parts[k])]
  ELSE z

collect(z, k) ==
  CASE z.calls[k] = "ok" -> [z EXCEPT !.initialResults = setKey(@, z.parts[k]),
                                      !.results = setKey(@, z.parts[k])]
    [] z.calls[k] = "err" -> [z EXCEPT !.errors = setKey(@, z.parts[k])]
    [] OTHER -> z

\* initialAnalyses.forEach: Promise.allSettled hands back the outcomes in the
\* order of the promises, not in the order in which they settled (z.arrival).
RECURSIVE collectAll_ByArrival(_, _)
collectAll_ByArrival(z, k) ==
  IF k > Len(z.arrival) THEN z
  ELSE collectAll_ByArrival(collect(z, z.arrival[k]), k + 1)

RECURSIVE collectAll(_, _)
collectAll(z, k) ==
  IF k > Len(z.parts) THEN z ELSE collectAll(collect(z, k), k + 1)

\* callRealSerenaMCP: spawn('uv', ...), the promise and its 5 s timer.
callRealSerenaMCP(fate) ==
  [NoCall EXCEPT !.state = IF fate = "ok" THEN "running" ELSE "enoent",
                 !.promise = "pending", !.timer = TRUE]

\* Promise.allSettled(promises) has settled: collect, then Phase 2 when serena
\* is among the participants, else the report.
afterPhase1(zs, fate) ==
  LET z == collectAll(zs.zen, 1) IN
  IF "serena" \in Keys(z.parts)
  THEN [zen |-> [z EXCEPT !.pc = "phase2", !.context = z.initialResults],
        serena |-> callRealSerenaMCP(fate)]
  ELSE [zs EXCEPT !.zen = [z EXCEPT !.pc = "done", !.response = "result"]]

\* await Promise.allSettled(promises): every promise has settled; with
\* Promise.race in its place the first to settle would do.
allSettled_First(z) ==
  z.calls = <<>> \/ \E k \in 1..Len(z.calls) : z.calls[k] # "pending"

allSettled(z) == \A k \in 1..Len(z.calls) : z.calls[k] # "pending"

\* callSerenaWithContext: a real answer is returned as it is; null (the process
\* exited) and a rejection (timeout, spawn error) fall back to
\* generateSerenaConsensus. It returns a text in every case.
callSerenaWithContext(outcome) ==
  IF outcome = "response" THEN "real" ELSE "consensus"

\* resolve / reject of the promise of callRealSerenaMCP: only the first settles
\* it, and the awaiting performCollaboration then runs to its return.
settle(zs, outcome) ==
  IF zs.serena.promise # "pending" THEN zs
  ELSE [zs EXCEPT !.serena.promise = outcome,
                  !.serena.delivered = Append(@, outcome),
                  !.zen.results = setKey(@, "serena"),
                  !.zen.serenaResult = callSerenaWithContext(outcome),
                  !.zen.pc = "done",
                  !.zen.response = "result"]

\* serenaProcess.kill('SIGTERM')
killSerena(zs) ==
  IF zs.serena.state = "running" THEN [zs EXCEPT !.serena.term = TRUE] ELSE zs

\* serenaProcess.on('exit'): clearTimeout, resolve(null)
onExit_NoResolve(zs) == [zs EXCEPT !.serena.timer = FALSE]

onExit(zs) == settle([zs EXCEPT !.serena.timer = FALSE], "null")

\* A write to the stdin of the Serena process; late: the call has settled, the
\* process has been signalled or it is gone.
write(zs, id) ==
  [zs EXCEPT !.serena.writes =
     Append(@, [id |-> id,
                late |-> \/ zs.serena.promise # "pending"
                         \/ zs.serena.term
                         \/ zs.serena.state # "running"])]

\* A tools/call request for "collaborate" arrives: performCollaboration(args).
ZenInvoke(args, promptOk) ==
  /\ zen.pc = "idle"
  /\ \E fate \in {"ok", "enoent"} :
       LET parts == destructure("zen", args)
           calls == [k \in 1..Len(parts) |-> startCall(parts[k], promptOk)]
           z == [zen EXCEPT !.pc = "phase1", !.named = args.named, !.parts = parts,
                            !.taskOk = promptOk,
                            !.calls = calls,
                            !.arrival = SelectSeq([k \in 1..Len(parts) |-> k],
                                                  LAMBDA k : calls[k] = "err")]
           zs == [ZState EXCEPT !.zen = z]
       IN ZCommit(IF allSettled(z) THEN afterPhase1(zs, fate) ELSE zs)

\* The simulated delay of the k-th participant elapses.
ZenCallDone(k) ==
  /\ zen.pc = "phase1"
  /\ k \in 1..Len(zen.calls)
  /\ zen.calls[k] = "pending"
  /\ \E fate \in {"ok", "enoent"} :
       LET z == [zen EXCEPT !.calls[k] = finishCall(zen.parts[k], zen.taskOk),
                            !.arrival = Append(@, k)]
           zs == [ZState EXCEPT !.zen = z]
       IN ZCommit(IF allSettled(z) THEN afterPhase1(zs, fate) ELSE zs)

\* serenaProcess.stdout 'data' with one line: a result with content, a result
\* without (the answer to initialize), or anything else.
SerenaStdout(kind) ==
  /\ serena.state = "running"
  /\ ZCommit(IF kind = "content"
             THEN settle(killSerena([ZState EXCEPT !.serena.timer = FALSE]), "response")
             ELSE ZState)

\* serenaProcess.stderr 'data': once the buffer holds 'Starting Serena server',
\* every chunk writes initialize and starts the 2 s timer of the analysis request.
SerenaStderr(startup) ==
  /\ serena.state = "running"
  /\ serena.stderrs < MaxStderr
  /\ LET zs == [ZState EXCEPT !.serena.stderrs = @ + 1,
                              !.serena.marker = @ \/ startup]
     IN ZCommit(IF zs.serena.marker
                THEN [write(zs, 1) EXCEPT !.serena.delayed = @ + 1]
                ELSE zs)

\* The 2 s timer fires: the tools/call request is written.
SerenaDelayedWrite ==
  /\ serena.delayed > 0
  /\ ZCommit(write([ZState EXCEPT !.serena.delayed = @ - 1], 2))

\* The 5 s timer fires: kill, reject('Serena MCP timeout').
SerenaTimeout ==
  /\ serena.timer
  /\ ZCommit(settle(killSerena([ZState EXCEPT !.serena.timer = FALSE]), "timeout"))

\* serenaProcess.on('error'): clearTimeout, reject(error).
SerenaProcError ==
  /\ serena.state = "enoent"
  /\ ZCommit(settle([ZState EXCEPT !.serena.state = "exited",
                                   !.serena.timer = FALSE], "error"))

\* The Serena process exits.
SerenaExit ==
  /\ serena.state = "running"
  /\ ZCommit(onExit([ZState EXCEPT !.serena.state = "exited"]))

NextSerena ==
  \/ \E args \in ZenArgs, promptOk \in BOOLEAN : ZenInvoke(args, promptOk)
  \/ \E k \in 1..MaxZenParts : ZenCallDone(k)
  \/ \E kind \in {"content", "initresult", "noise"} : SerenaStdout(kind)
  \/ \E startup \in BOOLEAN : SerenaStderr(startup)
  \/ SerenaDelayedWrite
  \/ SerenaTimeout
  \/ SerenaProcError
  \/ SerenaExit

SpecSerena == Init /\ [][NextSerena]_vars

\* The timers of the event loop fire.
SpecSerenaFair == SpecSerena /\ WF_vars(SerenaTimeout)

\* =============================== the sequential session (simple-collaborative.js)
SimpleLists == UNION {[1..n -> ZenParticipants] : n \in 1..MaxParts}
SimpleArgs == {[named |-> TRUE, participants |-> l] : l \in SimpleLists}
                \cup {[named |-> FALSE, participants |-> <<>>]}

SCommit(n) ==
  /\ simple' = n
  /\ UNCHANGED <<v2vars, zenvars, gateway, review, codec, wire>>

\* The for loop of performCollaboration from the k-th participant on, up to the
\* next call that suspends or through generateReport to the return. An unknown
\* participant throws in callParticipant at once.
RECURSIVE callParticipants(_, _)
callParticipants(sm, k) ==
  IF k > Len(sm.parts) THEN [sm EXCEPT !.pc = "done", !.idx = 0, !.response = "result"]
  ELSE IF sm.parts[k] \in {"ollama", "gemini", "codex", "serena"}
       THEN [sm EXCEPT !.pc = "calling", !.idx = k]
       ELSE callParticipants([sm EXCEPT !.errors = setKey(@, sm.parts[k])], k + 1)

\* A tools/call request for "collaborate": performCollaboration(args).
SimpleInvoke(args, promptOk) ==
  /\ simple.pc = "idle"
  /\ SCommit(callParticipants([simple EXCEPT !.named = args.named,
                                             !.parts = destructure("simple", args),
                                             !.taskOk = promptOk], 1))

\* The awaited callParticipant returns or throws. callOllama, callGemini and
\* callCodex read their prompt (prompt.toLowerCase()) and throw when it is not a
\* string; callSerena returns what the Serena process answered, or a fallback,
\* or throws.
SimpleCallDone(ok) ==
  /\ simple.pc = "calling"
  /\ LET p == simple.parts[simple.idx] IN
     /\ p # "serena" => ok = simple.taskOk
     /\ SCommit(callParticipants(
          IF ok THEN [simple EXCEPT !.results = setKey(@, p)]
                ELSE [simple EXCEPT !.errors = setKey(@, p)],
          simple.idx + 1))

NextSimple ==
  \/ \E args \in SimpleArgs, promptOk \in BOOLEAN : SimpleInvoke(args, promptOk)
  \/ \E ok \in BOOLEAN : SimpleCallDone(ok)

SpecSimple == Init /\ [][NextSimple]_vars

\* ================================================== the request dispatch
MaxReqs == 3         \* lines read in one run of a server

ParseError == -32700
MethodNotFound == -32601
InvalidParams == -32602
InternalError == -32603

\* request.id of a message that carries no id
NoId == 0
\* "id": null of the answer to a text that is no JSON
NullId == -1
RequestIds == {NoId, 1, 2}

\* "proxy": CollaborativeMCPServer, "real": RealCollaborativeMCPServer,
\* "simple": SimpleCollaborativeMCPServer.
Impls == {"proxy", "real", "simple"}

Methods == {"initialize", "tools/list", "tools/call", "resources/list",
            "notifications/initialized", "notifications/cancelled", "foo/bar"}

\* The shapes of params that the handlers tell apart: of initialize whether
\* there are any; of tools/call none, the tool 'collaborate' with arguments
\* (with a task, or with the task absent or empty), another tool, 'collaborate'
\* without arguments. No handler looks at the task before it starts the
\* collaboration.
ParamShapes == {"absent", "present", "collaborate", "no-task", "unknown-tool",
                "no-arguments"}

ParamsOf(method) ==
  CASE method = "initialize" -> {"absent", "present"}
    [] method = "tools/call" -> {"absent", "collaborate", "no-task", "unknown-tool",
                                 "no-arguments"}
    [] OTHER -> {"absent"}

Requests ==
  {r \in [id : RequestIds, method : Methods, params : ParamShapes] :
     r.params \in ParamsOf(r.method)}

\* What a handler does with a request before it returns or suspends: it writes
\* nothing, a result or an error, or it awaits a collaboration.
Nothing == [write |-> "none", code |-> 0, async |-> FALSE]
Result == [write |-> "result", code |-> 0, async |-> FALSE]
Error(code) == [write |-> "error", code |-> code, async |-> FALSE]
Collaboration == [write |-> "none", code |-> 0, async |-> TRUE]

\* method.startsWith('notifications/')
isNotification(method) ==
  method \in {"notifications/initialized", "notifications/cancelled"}

\* CollaborativeMCPServer.handleToolCall: destructuring params or args that are
\* undefined throws.
handleToolCall(r) ==
  CASE r.params = "absent" -> Error(InternalError)
    [] r.params = "unknown-tool" -> Error(InvalidParams)
    [] r.params = "no-arguments" -> Error(InternalError)
    [] OTHER -> Collaboration

\* CollaborativeMCPServer.handleRequest; handleInitialize reads
\* params.protocolVersion.
proxyHandleRequest(r) ==
  CASE r.method = "initialize" ->
         IF r.params = "absent" THEN Error(InternalError) ELSE Result
    [] r.method = "tools/list" -> Result
    [] r.method = "tools/call" -> handleToolCall(r)
    [] r.method = "notifications/cancelled" -> Nothing
    [] OTHER -> Error(MethodNotFound)

\* RealCollaborativeMCPServer.handleMessage: what it throws is caught and
\* logged; handleCollaborate(id, undefined) rejects with nobody awaiting it.
handleMessage(r) ==
  CASE r.method \in {"initialize", "tools/list", "resources/list"} -> Result
    [] r.method = "tools/call" ->
         CASE r.params = "absent" -> Nothing
           [] r.params = "unknown-tool" -> Error(InvalidParams)
           [] r.params = "no-arguments" -> Nothing
           [] OTHER -> Collaboration
    [] isNotification(r.method) -> Nothing
    [] OTHER -> Nothing

\* SimpleCollaborativeMCPServer.handleToolsCall: what it throws is caught by
\* handleRequest.
handleToolsCall(r) ==
  IF r.params \in {"collaborate", "no-task"} THEN Collaboration
  ELSE Error(MethodNotFound)

\* SimpleCollaborativeMCPServer.handleRequest
handleRequest(r) ==
  CASE r.method \in {"initialize", "tools/list"} -> Result
    [] r.method = "notifications/initialized" -> Nothing
    [] r.method = "tools/call" -> handleToolsCall(r)
    [] OTHER -> Error(MethodNotFound)

dispatch(impl, r) ==
  CASE impl = "proxy" -> proxyHandleRequest(r)
    [] impl = "real" -> handleMessage(r)
    [] OTHER -> handleRequest(r)

\* How an awaited collaboration ends: handleToolCall and handleCollaborate
\* answer a throw (of the proxy handler; 'Unknown mode') with InternalError,
\* performCollaboration returns its report.
CollaborationOutcomes(impl) ==
  IF impl = "simple" THEN {Result} ELSE {Result, Error(InternalError)}

\* sendResponse / sendError / process.stdout.write of the answer to request k.
sendResponse(g, k, o) ==
  IF o.write = "none" THEN g
  ELSE [g EXCEPT !.out = Append(@, [req |-> k, id |-> g.reqs[k].id,
                                    body |-> o.write, code |-> o.code])]

GCommit(g) ==
  /\ gateway' = g
  /\ UNCHANGED <<v2vars, zenvars, review, simple, codec, wire>>

\* One of the servers is started.
GwStart(impl) ==
  /\ gateway.impl = "none"
  /\ GCommit([gateway EXCEPT !.impl = impl])

\* A line that is no JSON text.
Junk == [id |-> NoId, method |-> "(malformed)", params |-> "absent"]

Lines == Requests \cup {Junk}

\* What the 'data' handler of a server makes of a chunk of complete lines:
\* run (SimpleCollaborativeMCPServer) and start (RealCollaborativeMCPServer)
\* split it at '\n'; handleInput (CollaborativeMCPServer) splits it at '\\n',
\* the two characters backslash and n, so that a chunk of several lines stays
\* one text, which is no JSON.
frame(impl, chunk) ==
  IF impl = "proxy" /\ Len(chunk) > 1 THEN <<Junk>> ELSE chunk

\* JSON.parse of a text throws: handleInput answers with sendError(null,
\* -32700), the other two servers log it.
parseError(g) ==
  IF g.impl = "proxy"
  THEN [g EXCEPT !.out = Append(@, [req |-> 0, id |-> NullId,
                                    body |-> "error", code |-> ParseError])]
  ELSE g

\* The loop over the texts of one chunk; the i-th text is line base + i of the
\* lines read. A handler that awaits a collaboration does not hold the loop of
\* run or start; handleInput gets at most one request out of a chunk.
RECURSIVE handleLines(_, _, _, _)
handleLines(g, texts, base, i) ==
  IF i > Len(texts) THEN g
  ELSE IF texts[i] = Junk THEN handleLines(parseError(g), texts, base, i + 1)
  ELSE LET k == base + i
           o == dispatch(g.impl, texts[i])
           g1 == sendResponse([g EXCEPT !.handled = @ \cup {k}], k, o)
           g2 == IF o.async THEN [g1 EXCEPT !.pending = @ \cup {k}] ELSE g1
       IN handleLines(g2, texts, base, i + 1)

\* A chunk of complete lines is read and every request in it handled up to the
\* handler's return or its await of the collaboration.
GwReceive(chunk) ==
  /\ gateway.impl # "none"
  /\ Len(gateway.reqs) + Len(chunk) <= MaxReqs
  /\ GCommit(handleLines([gateway EXCEPT !.reqs = @ \o chunk],
                         frame(gateway.impl, chunk), Len(gateway.reqs), 1))

\* The collaboration of request k ends and its answer is written.
GwCollaborationDone(k, o) ==
  /\ k \in gateway.pending
  /\ o \in CollaborationOutcomes(gateway.impl)
  /\ GCommit(sendResponse([gateway EXCEPT !.pending = @ \ {k}], k, o))

NextGateway ==
  \/ \E impl \in Impls : GwStart(impl)
  \/ \E n \in 1..(MaxReqs - Len(gateway.reqs)) :
       \E chunk \in [1..n -> Lines] : GwReceive(chunk)
  \/ \E k \in 1..MaxReqs, o \in {Result, Error(InternalError)} : GwCollaborationDone(k, o)

SpecGateway == Init /\ [][NextGateway]_vars

\* ============================= performRealCollaboration (cross-review)
\* The participants of performRealCollaboration, in the order it calls them.
RealAIs == <<"gemini", "codex", "ollama">>

Modes == {"plan", "apply", "review", "bogus"}

RCommit(rv) ==
  /\ review' = rv
  /\ UNCHANGED <<v2vars, zenvars, gateway, simple, codec, wire>>

\* Object.keys(results): the participants with a Phase 1 result, in the order
\* the results were stored.
successfulAIs(rv) == [k \in 1..Len(rv.results) |-> rv.results[k].ai]

\* "if (successfulAIs.length >= 2)"
shouldReview_Always(rv) == TRUE

shouldReview(rv) == Len(rv.results) >= 2

\* The inner loop of Phase 2: the results of the other successful participants.
otherResults_All(rv, reviewerAI) == rv.results

otherResults(rv, reviewerAI) ==
  SelectSeq(rv.results, LAMBDA e : e.ai # reviewerAI)

\* buildConsensus: a text made of the participants and of every entry of
\* discussions; it reads nothing else.
buildConsensus_NeedsReviews(rv) ==
  [threw |-> rv.discussions = <<>>,
   participants |-> successfulAIs(rv),
   rounds |-> Len(rv.discussions),
   sections |-> rv.discussions]

buildConsensus(rv) ==
  [threw |-> FALSE,
   participants |-> successfulAIs(rv),
   rounds |-> Len(rv.discussions),
   sections |-> rv.discussions]

\* Phase 3 and the return of performRealCollaboration to handleCollaborate,
\* which answers with the report, or with -32603 when something was thrown.
phase3(rv) ==
  LET c == buildConsensus(rv) IN
  [rv EXCEPT !.pc = "done", !.ai = "none", !.stage = "none",
             !.consensus = <<c>>,
             !.response = IF c.threw THEN "error" ELSE "result"]

\* callGeminiCLI / callCodexMCP up to "await client.connect()".
connectTo(rv, pc, ai, k) ==
  [rv EXCEPT !.pc = pc, !.ai = ai, !.idx = k, !.stage = "connect", !.reason = ""]

\* The text a participant returns in Phase 1.
Analysis(ai) == <<"analysis", ai>>

\* discussions[reviewerAI] = await conductCrossReview(...)
recordReview(rv, reviewerAI) ==
  [rv EXCEPT !.discussions = Append(@, [ai |-> reviewerAI, kind |-> "review"])]

\* The catch of the reviewer loop:
\* discussions[reviewerAI] = `Discussion error: ${error.message}`
recordReviewError_Abort(rv, reviewerAI) ==
  [rv EXCEPT !.pc = "aborted", !.response = "error"]

recordReviewError(rv, reviewerAI) ==
  [rv EXCEPT !.discussions = Append(@, [ai |-> reviewerAI, kind |-> "error"])]

\* Phase 2 from the k-th successful participant on, up to the next await that
\* suspends (a reviewer's connect) or through Phase 3 to the return. callOllama
\* returns at once.
RECURSIVE reviews(_, _)
reviews(rv, k) ==
  IF rv.pc = "aborted" THEN [rv EXCEPT !.pc = "done"]
  ELSE IF k > Len(rv.results) THEN phase3(rv)
  ELSE LET reviewerAI == successfulAIs(rv)[k]
           rv1 == [rv EXCEPT !.reviewCalls =
                     Append(@, [reviewer |-> reviewerAI,
                                others |-> otherResults(rv, reviewerAI)])]
       IN IF reviewerAI = "ollama"
          THEN reviews(recordReview(rv1, reviewerAI), k + 1)
          ELSE connectTo(rv1, "phase2", reviewerAI, k)

phase2(rv) == IF shouldReview(rv) THEN reviews(rv, 1) ELSE phase3(rv)

\* Phase 1 from the k-th participant on, up to the next await that suspends.
RECURSIVE phase1(_, _)
phase1(rv, k) ==
  IF k > Len(RealAIs) THEN phase2(rv)
  ELSE IF RealAIs[k] = "ollama"
       THEN phase1([rv EXCEPT !.results =
                      Append(@, [ai |-> "ollama", text |-> Analysis("ollama")])],
                   k + 1)
       ELSE connectTo(rv, "phase1", RealAIs[k], k)

\* The awaited call of gemini or codex returned: Phase 1 stores the result,
\* Phase 2 the review.
callSucceeded(rv) ==
  IF rv.pc = "phase1"
  THEN phase1([rv EXCEPT !.results =
                 Append(@, [ai |-> rv.ai, text |-> Analysis(rv.ai)])], rv.idx + 1)
  ELSE reviews(recordReview(rv, rv.ai), rv.idx + 1)

\* The awaited call of gemini or codex threw.
callFailed(rv, reason) ==
  IF rv.pc = "phase1"
  THEN phase1([rv EXCEPT !.errors = Append(@, [ai |-> rv.ai, reason |-> reason])],
              rv.idx + 1)
  ELSE reviews(recordReviewError([rv EXCEPT !.reviewThrows = @ \cup {rv.ai}], rv.ai),
               rv.idx + 1)

\* callCodexMCP closes its client in the catch before it rethrows;
\* callGeminiDirectly rethrows at once.
threw(rv, reason) ==
  IF rv.ai = "codex"
  THEN [rv EXCEPT !.stage = "cleanup", !.reason = reason]
  ELSE callFailed(rv, reason)

\* handleCollaborate is called with the arguments of a tools/call request.
RvInvoke(mode, task) ==
  /\ review.pc = "idle"
  /\ LET rv == [review EXCEPT !.mode = mode, !.task = task] IN
     RCommit(CASE mode = "apply" -> phase1(rv, 1)
               [] mode = "bogus" -> [rv EXCEPT !.pc = "done", !.response = "error"]
               [] OTHER -> [rv EXCEPT !.pc = "done", !.response = "result"])

\* An awaited step of the SDK client (connect, callTool, close) ends: it
\* returns (ok) or throws. With no task and no content callCodexMCP throws on
\* prompt.substring after its connect.
RvStep(ok) ==
  /\ review.pc \in {"phase1", "phase2"}
  /\ RCommit(
       CASE review.stage = "connect" ->
              IF ~ok THEN threw(review, "connect")
              ELSE IF review.ai = "codex" /\ review.pc = "phase1" /\ review.task = "absent"
                   THEN threw(review, "prompt")
                   ELSE [review EXCEPT !.stage = "callTool"]
         [] review.stage = "callTool" ->
              IF ok THEN [review EXCEPT !.stage = "close"] ELSE threw(review, "callTool")
         [] review.stage = "close" ->
              IF ok THEN callSucceeded(review) ELSE threw(review, "close")
         [] OTHER -> callFailed(review, review.reason))

NextReview ==
  \/ \E mode \in Modes, task \in {"present", "absent"} : RvInvoke(mode, task)
  \/ \E ok \in BOOLEAN : RvStep(ok)

SpecReview == Init /\ [][NextReview]_vars

\* ============================================== reading lines from a stream
MaxStream == 5       \* characters received in one run of a reader

NL == "\n"
Chars == {"r", "x", NL}      \* "r": text a line is searched for ('"result"')
Readers == {"run", "start", "serena"}
Chunks(n) == UNION {[1..k -> Chars] : k \in 1..n}

CCommit(c) ==
  /\ codec' = c
  /\ UNCHANGED <<v2vars, zenvars, gateway, review, simple, wire>>

\* text.split('\n'): the pieces between the newlines, one more than newlines.
RECURSIVE split(_)
split(text) ==
  IF \A i \in 1..Len(text) : text[i] # NL THEN <<text>>
  ELSE LET i == CHOOSE i \in 1..Len(text) :
                  text[i] = NL /\ \A j \in 1..(i - 1) : text[j] # NL
       IN <<SubSeq(text, 1, i - 1)>> \o split(SubSeq(text, i + 1, Len(text)))

\* text.trim(): the newline is the only whitespace among Chars.
RECURSIVE trim(_)
trim(text) ==
  IF text = <<>> THEN text
  ELSE IF Head(text) = NL THEN trim(Tail(text))
  ELSE IF text[Len(text)] = NL THEN trim(SubSeq(text, 1, Len(text) - 1))
  ELSE text

\* if (line.trim())
nonBlank(line) == trim(line) # <<>>

\* line.includes('"result"')
includesResult(line) == \E i \in 1..Len(line) : line[i] = "r"

\* The stdin 'data' handler of run: the piece after the last newline is kept in
\* the buffer, the pieces before it are parsed.
runOnData(c, data) ==
  LET lines == split(c.buffer \o data) IN
  [c EXCEPT !.buffer = lines[Len(lines)],
            !.parsed = @ \o SelectSeq(SubSeq(lines, 1, Len(lines) - 1), nonBlank)]

\* The stdin 'data' handler of start: the pieces of the trimmed chunk are
\* handed to handleMessage, nothing is kept.
startOnData(c, data) ==
  [c EXCEPT !.parsed = @ \o SelectSeq(split(trim(data)), nonBlank)]

\* The stdout 'data' handler of callRealSerenaMCP: every piece of the whole
\* responseBuffer that includes '"result"' is parsed; nothing is taken out of
\* the buffer.
serenaOnData(c, data) ==
  LET lines == split(c.buffer \o data) IN
  [c EXCEPT !.buffer = c.buffer \o data,
            !.parsed = @ \o SelectSeq(lines, LAMBDA l : nonBlank(l) /\ includesResult(l))]

\* A reader attaches its 'data' handler.
CodecStart(reader) ==
  /\ codec.reader = "none"
  /\ CCommit([codec EXCEPT !.reader = reader])

\* A 'data' event with one chunk of the stream.
CodecData(data) ==
  /\ codec.reader # "none"
  /\ Len(codec.stream) + Len(data) <= MaxStream
  /\ LET c == [codec EXCEPT !.stream = @ \o data] IN
     CCommit(CASE codec.reader = "run" -> runOnData(c, data)
               [] codec.reader = "start" -> startOnData(c, data)
               [] OTHER -> serenaOnData(c, data))

NextCodec ==
  \/ \E reader \in Readers : CodecStart(reader)
  \/ \E data \in Chunks(MaxStream - Len(codec.stream)) : CodecData(data)

SpecCodec == Init /\ [][NextCodec]_vars

\* ===================================== the ids on the pipes of a Serena call
\* The ids of the lines Serena may answer with: initialize (1), the analysis
\* request (2), an id no request carried (9).
ResponseIds == {1, 2, 9}

WCommit(w) ==
  /\ wire' = w
  /\ UNCHANGED <<v2vars, zenvars, gateway, review, simple, codec>>

\* callSerenaWithContext calls callRealSerenaMCP: Phase 2 of a session.
WireCall(fate) ==
  /\ wire.serena.state = "none"
  /\ WCommit([wire EXCEPT !.zen = [IdleZen EXCEPT !.pc = "phase2", !.parts = <<"serena">>],
                          !.serena = callRealSerenaMCP(fate)])

\* serenaProcess.stdout 'data' with one line carrying an id: a result with
\* content resolves the call whatever its id; a result without content (the
\* answer to initialize) and anything else are passed over.
WireStdout(kind, id) ==
  /\ wire.serena.state = "running"
  /\ WCommit(CASE kind = "content" ->
                    [settle(killSerena([wire EXCEPT !.serena.timer = FALSE]), "response")
                       EXCEPT !.answeredBy = IF wire.serena.promise = "pending" THEN id ELSE @]
               [] kind = "initresult" /\ id = 1 -> [wire EXCEPT !.ready = TRUE]
               [] OTHER -> wire)

\* serenaProcess.stderr 'data'.
WireStderr(startup) ==
  /\ wire.serena.state = "running"
  /\ wire.serena.stderrs < MaxStderr
  /\ LET w == [wire EXCEPT !.serena.stderrs = @ + 1,
                           !.serena.marker = @ \/ startup]
     IN WCommit(IF w.serena.marker
                THEN [write(w, 1) EXCEPT !.serena.delayed = @ + 1]
                ELSE w)

\* The 2 s timer fires: the tools/call request is written.
WireDelayedWrite ==
  /\ wire.serena.delayed > 0
  /\ WCommit(write([wire EXCEPT !.serena.delayed = @ - 1], 2))

\* The 5 s timer fires.
WireTimeout ==
  /\ wire.serena.timer
  /\ WCommit(settle(killSerena([wire EXCEPT !.serena.timer = FALSE]), "timeout"))

\* serenaProcess.on('error')
WireProcError ==
  /\ wire.serena.state = "enoent"
  /\ WCommit(settle([wire EXCEPT !.serena.state = "exited",
                                 !.serena.timer = FALSE], "error"))

\* The Serena process exits.
WireExit ==
  /\ wire.serena.state = "running"
  /\ WCommit(onExit([wire EXCEPT !.serena.state = "exited"]))

NextWire ==
  \/ \E fate \in {"ok", "enoent"} : WireCall(fate)
  \/ \E kind \in {"content", "initresult", "noise"}, id \in ResponseIds : WireStdout(kind, id)
  \/ \E startup \in BOOLEAN : WireStderr(startup)
  \/ WireDelayedWrite
  \/ WireTimeout
  \/ WireProcError
  \/ WireExit

SpecWire == Init /\ [][NextWire]_vars

\* ------------------------------------------------------------------ claims
ClientErrors == {"spawn", "connect-timeout", "connect-failed", "remote", "timeout", "closed"}

Succeeded(s) == {p \in Participants : sess[s].results[p] # NoText}
Failed(s) == {p \in Participants : sess[s].errors[p] # NoError}
Requested(s) == {sess[s].parts[k] : k \in 1..Len(sess[s].parts)}

C2_AllFailedIsError ==
  \A s \in Sessions :
    (sess[s].pc = "done" /\ Succeeded(s) = {}) => sess[s].response = "error"

Distinct(seq) == \A i, j \in 1..Len(seq) : seq[i] = seq[j] => i = j

\* What the Phase 1 calls of the Zen-style session did: returned or threw.
ZenRequested == Keys(zen.parts)
ZenSucceeded == {zen.parts[k] : k \in {j \in 1..Len(zen.calls) : zen.calls[j] = "ok"}}
ZenFailed == {zen.parts[k] : k \in {j \in 1..Len(zen.calls) : zen.calls[j] = "err"}}
Phase1Over == zen.pc \in {"phase2", "done"}

C5_ExitIsError ==
  (zen.pc = "done" /\ serena.promise = "null") =>
    /\ "serena" \in Keys(zen.errors)
    /\ "serena" \notin Keys(zen.results)

\* C6: callers that ask for the same identity while its creation is in progress
\* wait for one and the same process.
C6_SharedCreation ==
  \A s, t \in Sessions :
    ( /\ sess[s].pc = "creating" /\ sess[t].pc = "creating"
      /\ procs[sess[s].mine].key = procs[sess[t].mine].key )
    => sess[s].mine = sess[t].mine

\* C7: no two live processes of one participant identity.
C7_OneLiveProcess ==
  \A i, j \in 1..Len(procs) :
    ( /\ procs[i].key = procs[j].key
      /\ procs[i].state = "running" /\ procs[j].state = "running" )
    => i = j

\* C8: when the 5 s timer of cleanupClient fires and the process is still
\* running, SIGKILL is sent to it.
C8_ForceKill ==
  [][\A i \in 1..Len(procs) :
       (i \in killTimers /\ i \notin killTimers' /\ procs'[i].state = "running")
       => procs'[i].kill9]_vars

\* C9: when the server has exited after its cleanup, every process it spawned
\* has exited or has been sent SIGKILL.
C9_NoneLeftRunning ==
  server = "exited" =>
    \A i \in 1..Len(procs) : procs[i].state = "running" => procs[i].kill9

\* The methods a server's dispatch has a case for.
Supported(impl) ==
  CASE impl = "proxy" -> {"initialize", "tools/list", "tools/call", "notifications/cancelled"}
    [] impl = "real" -> {"initialize", "tools/list", "tools/call", "resources/list",
                         "notifications/initialized", "notifications/cancelled"}
    [] OTHER -> {"initialize", "tools/list", "tools/call", "notifications/initialized"}

Answers(k) == {n \in 1..Len(gateway.out) : gateway.out[n].req = k}

\* C10: a request that carries an id and whose method the server does not
\* support has exactly one Response written for it, an error with code -32601
\* and the id of the request.
C10_MethodNotFound ==
  \A k \in 1..Len(gateway.reqs) :
    (gateway.reqs[k].id # NoId /\ gateway.reqs[k].method \notin Supported(gateway.impl)) =>
      /\ Cardinality(Answers(k)) = 1
      /\ \A n \in Answers(k) :
           /\ gateway.out[n].body = "error"
           /\ gateway.out[n].code = MethodNotFound
           /\ gateway.out[n].id = gateway.reqs[k].id

\* C11: a tools/call request whose params are missing, or whose task is absent
\* or empty, starts no collaboration and has exactly one Response written for
\* it, an error with code -32602.
C11_InvalidParams ==
  \A k \in 1..Len(gateway.reqs) :
    ( /\ gateway.reqs[k].id # NoId
      /\ gateway.reqs[k].method = "tools/call"
      /\ gateway.reqs[k].params \in {"absent", "no-task"} ) =>
      /\ k \notin gateway.pending
      /\ Cardinality(Answers(k)) = 1
      /\ \A n \in Answers(k) :
           /\ gateway.out[n].body = "error"
           /\ gateway.out[n].code = InvalidParams

\* A request that each of the three servers answers: initialize, tools/list or
\* an invoke of 'collaborate' with a task, carrying an id.
Answerable(r) ==
  /\ r.id # NoId
  /\ \/ r.method = "tools/list"
     \/ r.method = "initialize" /\ r.params = "present"
     \/ r.method = "tools/call" /\ r.params = "collaborate"

\* Line k was parsed and dispatched, and if it is a request that is answered,
\* its answer is written or its collaboration is under way.
Served(k) ==
  /\ k \in gateway.handled
  /\ Answerable(gateway.reqs[k]) => (k \in gateway.pending \/ Answers(k) # {})

\* C12: every well-formed request read after a malformed line, in the same
\* chunk or a later one, is handled and answered.
C12_MalformedLineIsSkipped ==
  \A j, k \in 1..Len(gateway.reqs) :
    (j < k /\ gateway.reqs[j] = Junk /\ gateway.reqs[k] # Junk) => Served(k)

\* C19: while an invoke awaits its collaboration, every request read after it
\* is handled and answered.
C19_NoHeadOfLineBlocking ==
  \A j, k \in 1..Len(gateway.reqs) :
    (j < k /\ j \in gateway.pending /\ Answerable(gateway.reqs[k])) => Served(k)

\* --- cross-review (src/data-parser.js, performRealCollaboration)

Reviewers == {review.reviewCalls[i].reviewer : i \in 1..Len(review.reviewCalls)}
Reviewed == {review.discussions[i].ai : i \in 1..Len(review.discussions)}
Returned == review.pc = "done" /\ review.mode = "apply"

\* C13: a cross-review call is made, and the review map gets an entry, only
\* when at least two participants succeeded in Phase 1; with fewer successes
\* the session ends with no review call made and an empty review map.
C13_ReviewNeedsTwo ==
  (review.reviewCalls # <<>> \/ review.discussions # <<>>) => Len(review.results) >= 2

\* C13 witness: a session returned with one Phase-1 success, no review call
\* and an empty review map.
C13_Witness ==
  /\ Returned
  /\ Len(review.results) = 1
  /\ Len(review.errors) = 2
  /\ review.reviewCalls = <<>>
  /\ review.discussions = <<>>

C15_ReviewerFailureIsolated ==
  Returned =>
    /\ review.response = "result"
    /\ \A a \in review.reviewThrows :
         \E i \in 1..Len(review.discussions) :
           review.discussions[i] = [ai |-> a, kind |-> "error"]
    /\ Len(review.results) >= 2 =>
         /\ Reviewers = {review.results[j].ai : j \in 1..Len(review.results)}
         /\ Reviewed = Reviewers
         /\ Len(review.discussions) = Len(review.results)

\* C15 witness: the first reviewer's call threw, two later reviewers gave
\* their reviews, and the session returned its result.
C15_Witness ==
  /\ Returned
  /\ review.response = "result"
  /\ review.reviewThrows = {"gemini"}
  /\ Len(review.discussions) = 3
  /\ review.discussions[1] = [ai |-> "gemini", kind |-> "error"]
  /\ review.discussions[2] = [ai |-> "codex", kind |-> "review"]
  /\ review.discussions[3] = [ai |-> "ollama", kind |-> "review"]

InListOrder(outcome) ==
  LET first == SelectSeq([k \in 1..Len(zen.parts) |-> k],
                         LAMBDA k : /\ zen.calls[k] = outcome
                                    /\ \A j \in 1..(k - 1) :
                                         ~(zen.parts[j] = zen.parts[k] /\ zen.calls[j] = outcome))
  IN [i \in 1..Len(first) |-> zen.parts[first[i]]]

\* C17: from the end of Phase 1 on, the result map, the error map and the
\* input of the consensus (keys and key order) are fixed by the requested list
\* and the outcome of each participant's call: the order in which the
\* concurrent calls settled has no part in them.
C17_OrderIndependent ==
  Phase1Over =>
    /\ zen.initialResults = InListOrder("ok")
    /\ zen.errors = InListOrder("err")
    /\ zen.results = IF zen.pc = "done" /\ "serena" \in ZenRequested
                     THEN Append(InListOrder("ok"), "serena")
                     ELSE InListOrder("ok")
    /\ "serena" \in ZenRequested => zen.context = InListOrder("ok")

\* C17 witness: two calls settled against the order of the list, the second
\* participant first, then failed calls aside, and the maps handed to the
\* consensus are in the order of the list.
C17_Witness ==
  /\ zen.pc = "phase2"
  /\ Len(zen.parts) = 3
  /\ zen.arrival = <<2, 1>>
  /\ zen.calls[1] = "ok" /\ zen.calls[2] = "ok"
  /\ zen.parts[1] # zen.parts[2]
  /\ zen.context = <<zen.parts[1], zen.parts[2]>>

\* --- default participants (src/simple-collaborative.js, performCollaboration)

AllFour == {"ollama", "gemini", "codex", "serena"}

\* C18: a session whose invoke named no participants has run all four
\* participants, ollama, gemini, codex and serena, when it returns: each of
\* them is a key of its result map or of its error map.
C18_DefaultIsAllFour ==
  (simple.pc = "done" /\ ~simple.named) =>
    /\ Keys(simple.parts) = AllFour
    /\ Keys(simple.results) \cup Keys(simple.errors) = AllFour

\* --- lines of a chunked stream (part_003 run, data-parser.js start, the
\* --- stdout handler of callRealSerenaMCP)

\* The newline-terminated lines of the whole stream that the reader is to
\* parse: the non-blank ones, and for the Serena reader those that include
\* '"result"'.
Messages ==
  LET lines == split(codec.stream)
      whole == SubSeq(lines, 1, Len(lines) - 1)
  IN SelectSeq(whole, LAMBDA l : /\ nonBlank(l)
                                 /\ codec.reader = "serena" => includesResult(l))

\* C20: however the stream is cut into chunks, the texts a reader has parsed
\* are the newline-terminated lines of the stream received so far, each once
\* and in order.
C20_EveryChunking ==
  codec.reader # "none" => codec.parsed = Messages

\* --- the ids on the pipes of a Serena call (src/unnamed/part_003, callRealSerenaMCP)

WireWrites == wire.serena.writes

\* C21: a Serena call is resolved by an answer only when the answer carries the
\* id of the call's request (2, the analysis request) and that request has
\* been written; an answer with another id leaves the call pending.
C21_ResolvedByOwnId ==
  wire.serena.promise = "response" =>
    /\ wire.answeredBy = 2
    /\ \E i \in 1..Len(WireWrites) : WireWrites[i].id = 2

\* C22: the ids of the requests written to the Serena process are strictly
\* increasing, so no id is written twice.
C22_IdsIncrease ==
  \A i, j \in 1..Len(WireWrites) : i < j => WireWrites[i].id < WireWrites[j].id

\* C23: the tools/call request (id 2) is written only when the answer to
\* initialize has been read.
C23_ReadyBeforeCall ==
  [][\A i \in 1..Len(WireWrites') :
       (i > Len(WireWrites) /\ WireWrites'[i].id = 2) => wire.ready]_vars

\* C29: no request is written to the stdin of the Serena process once the call
\* has settled, the process has been sent SIGTERM or the process is gone.
C29_NoLateWrite ==
  \A i \in 1..Len(WireWrites) : ~WireWrites[i].late

\* --- the client registry (src/fixed-collaborative-v2.js)

\* The participant key of the call session s is in.
KeyOf(s) == ClientKey(sess[s].parts[sess[s].idx])

\* A cleanupClient(key) call is suspended in "await client.close()".
CleaningUp(key) ==
  \/ closing[key] > 0
  \/ \E s \in Sessions : sess[s].pc = "cleanup" /\ KeyOf(s) = key

\* The creation promise of process i was rejected while connect was pending (by
\* the 15 s timer; a failed spawn leaves no process) and the process lives.
TimedOutLive(i) ==
  /\ procs[i].created = "rejected"
  /\ procs[i].conn = "connecting"
  /\ procs[i].state = "running"

\* C24: when the 15 s connect timer has fired before the handshake completed,
\* no caller is left waiting for the creation, and the spawned process has
\* been sent SIGTERM as soon as the caller's catch (cleanupClient) has run.
C24_TimeoutKills ==
  /\ \A s \in Sessions :
       sess[s].pc = "creating" => procs[sess[s].mine].created = "pending"
  /\ \A i \in 1..Len(procs) :
       TimedOutLive(i) =>
         \/ procs[i].term
         \/ \E s \in Sessions : /\ sess[s].pc = "cleanup"
                                /\ sess[s].reason = "connect-timeout"
                                /\ KeyOf(s) = procs[i].key

\* C25: a process that has exited, or whose creation failed, has no client in
\* the registry once no cleanupClient for its key is still running.
C25_NoDeadClient ==
  \A i \in 1..Len(procs) :
    ( /\ procs[i].state = "exited" \/ procs[i].created = "rejected"
      /\ ~CleaningUp(procs[i].key) )
    => mcpClients[procs[i].key] # i

\* C26: when a participant's first call succeeds on a process that has not
\* exited, and the server is up, the registry holds a client for that
\* participant, so that the next call finds it and spawns nothing.
C26_ClientKept ==
  [][\A s \in Sessions :
       ( /\ sess[s].pc = "request"
         /\ server' = "up"
         /\ sess[s].results[sess[s].parts[sess[s].idx]] = NoText
         /\ sess'[s].results[sess[s].parts[sess[s].idx]] = "text"
         /\ procs'[sess[s].client].state = "running" )
       => mcpClients'[KeyOf(s)] # 0]_vars

\* C28: when two sessions have a request in flight on the same client and the
\* request of one fails with a remote error or times out, the connection of the
\* client stays open for the other.
C28_FailureSparesOther ==
  [][\A s, t \in Sessions :
       ( /\ s # t
         /\ sess[s].pc = "request" /\ sess[t].pc = "request"
         /\ sess[s].client = sess[t].client
         /\ procs[sess[s].client].conn = "connected"
         /\ procs'[sess[s].client].state = "running"
         /\ sess'[s].pc # "request" /\ sess'[t].pc = "request" )
       => procs'[sess[t].client].conn = "connected"]_vars

\* C30: cleanupClient calls client.close() at most once on a client: no call
\* of cleanupClient begins to close the client of a live process on which
\* close() has been called already. (A second call after the first finished
\* finds no client and no process registered, and does nothing.)
C30_CloseOnce ==
  [][\A key \in ClientKeys :
       ( /\ \/ closing'[key] > closing[key]
            \/ \E s \in Sessions : /\ sess[s].pc # "cleanup" /\ sess'[s].pc = "cleanup"
                                   /\ sess[s].idx = sess'[s].idx /\ sess[s].parts # <<>>
                                   /\ KeyOf(s) = key
         /\ mcpClients[key] # 0
         /\ procs[mcpClients[key]].state = "running" )
       => procs[mcpClients[key]].conn # "closed"]_vars

\* --- Phase 1 before Phase 2 (src/unnamed/part_003, performCollaboration)

\* C27: the consensus call of Serena (Phase 2) and the report start only when
\* every Phase 1 call has settled, and the context the consensus call receives
\* holds every participant whose Phase 1 call succeeded, and no other.
C27_Phase2AfterPhase1 ==
  /\ (serena.state # "none" \/ zen.pc \in {"phase2", "done"}) =>
       \A k \in 1..Len(zen.calls) : zen.calls[k] \in {"ok", "err", "skip"}
  /\ serena.state # "none" =>
       /\ Keys(zen.context) = ZenSucceeded
       /\ Len(zen.arrival) = Cardinality({k \in 1..Len(zen.parts) : zen.parts[k] # "serena"})

\* C27 witness: the consensus call is running after two Phase 1 calls settled
\* one after the other, and its context holds the two participants.
C27_Witness ==
  /\ zen.pc = "phase2"
  /\ serena.state = "running" /\ serena.promise = "pending"
  /\ Len(zen.arrival) = 2
  /\ Cardinality(ZenSucceeded) = 2
  /\ Keys(zen.context) = ZenSucceeded

\* --- teardown by key (src/fixed-collaborative-v2.js, exit handler)

\* C31: the step in which a process exits, and with it the cleanupClient its
\* exit handler starts, neither closes the client of a process created later
\* under the same key nor signals that process.
C31_ExitSparesLater ==
  [][\A i, j \in 1..Len(procs) :
       ( /\ i < j
         /\ procs[i].key = procs[j].key
         /\ procs[i].state = "running" /\ procs'[i].state = "exited"
         /\ procs[j].state = "running" )
       => /\ procs'[j].conn = procs[j].conn
          /\ procs'[j].term = procs[j].term]_vars

\* --- result map and error map (src/fixed-collaborative-v2.js, handleCollaborate)

\* C32: in every session, whatever the participant list, no participant is a
\* key of both the result map and the error map.
C32_ResultXorError ==
  \A s \in Sessions : Succeeded(s) \cap Failed(s) = {}

\* --- notifications (handleRequest of the three servers)

\* C33: a message that carries no id, whatever its method, has no Response and
\* no error Response written for it.
C33_NotificationUnanswered ==
  \A k \in 1..Len(gateway.reqs) :
    (gateway.reqs[k] # Junk /\ gateway.reqs[k].id = NoId) => Answers(k) = {}

\* --- the process map (src/fixed-collaborative-v2.js, childProcesses)

\* C34: every participant process that was spawned and has not exited is the
\* process recorded under its key in childProcesses.
C34_RunningIsRecorded ==
  \A i \in 1..Len(procs) :
    procs[i].state = "running" => childProcesses[procs[i].key] = i

====
